---- MODULE Spec2Model ----
(***************************************************************************)
(* Model of src/csp.py: the CSP class (variables, domains, constraints),   *)
(* its builder methods, AC-3 (inference/revise) and the backtracking       *)
(* search, as the Python 2 code executes them.                             *)
(*                                                                         *)
(* Values are the integers 1..MaxVal, variable names are strings.  A       *)
(* Python list is a sequence, a dict is a function whose DOMAIN is the key *)
(* set.  The iteration order of a dict (CPython 2: an order fixed by the   *)
(* keys' hashes) is the sequence keyOrder.                                 *)
(***************************************************************************)
EXTENDS Integers, Sequences, FiniteSets, TLC

VARIABLES
    variables,          \* self.variables: list of registered names
    domains,            \* self.domains: name -> list of values
    constraints,        \* self.constraints: name -> (name -> list of value pairs)
    keyOrder,           \* iteration order of the dicts keyed by variable name
    registered,         \* the domain each name was last registered with (history)
    hasBoard,           \* every key "r-c" read by debug_print is a variable
    backtrack_called,   \* self.backtrack_called
    backtrack_failed,   \* self.backtrack_failed
    pc,                 \* position of the running code
    stack,              \* the active backtrack calls, outermost first; a call's tried and
                        \* seen are history: the values its loop has yielded, and
                        \* self.domains as the inference call of its last iteration found it
    arg,                \* the assignment passed to the backtrack call being made
    queue,              \* the queue of the running inference call
    infResult,          \* what the last inference call returned
    infHist,            \* history of the inference calls: outcome of the first one, queue
                        \* and result of the last one ended, initial queue of the current one
    ret,                \* the value a backtrack call has just returned
    result,             \* what backtracking_search returned
    ops,                \* number of builder calls made
    pairLog,            \* per stored arc: the filters applied to it and the domains it was made from (history)
    lastCall            \* the last builder call and the CSP object before it (history)

vars == <<variables, domains, constraints, keyOrder, registered, hasBoard,
          backtrack_called, backtrack_failed, pc, stack, arg, queue, infResult,
          infHist, ret, result, ops, pairLog, lastCall>>

graphVars == <<variables, domains, constraints, keyOrder, registered, ops, pairLog, lastCall>>
searchVars == <<hasBoard, backtrack_called, backtrack_failed, stack, arg, queue,
                infResult, infHist, ret, result>>

(***************************************************************************)
(* Bounds of the model.                                                    *)
(***************************************************************************)
MaxVal == 3         \* values are 1..MaxVal
MaxOps == 4         \* builder calls in one run of the builder

Values == 1..MaxVal

\* The variable names of the generated graphs: cells of the board, named as
\* create_sudoku_csp names them ('%d-%d' % (row, col)).
Cells == <<"0-0", "0-1", "0-2">>
Name(k) == Cells[k]

\* The predicates handed to add_constraint_one_way as filter_function.
Predicates == {"neq", "lt", "gt"}
Holds(f, x, y) ==
    CASE f = "neq" -> x # y
      [] f = "lt" -> x < y
      [] f = "gt" -> x > y

(***************************************************************************)
(* Sequence helpers.                                                       *)
(***************************************************************************)
Range(s) == {s[n] : n \in 1..Len(s)}
InList(e, s) == \E n \in 1..Len(s) : s[n] = e
\* A deletion that moves the following entries down without shortening the list.
RemoveAtOverwrite(s, k) == [n \in 1..Len(s) |-> IF n >= k /\ n < Len(s) THEN s[n + 1] ELSE s[n]]

\* del s[k]
RemoveAt(s, k) == [n \in 1..(Len(s) - 1) |-> IF n < k THEN s[n] ELSE s[n + 1]]
IsSubSeq(s, t) ==
    \E f \in [1..Len(s) -> 1..Len(t)] :
        /\ \A n \in 1..Len(s) : s[n] = t[f[n]]
        /\ \A n, m \in 1..Len(s) : n < m => f[n] < f[m]

RECURSIVE Flatten(_)
Flatten(ss) == IF ss = <<>> THEN <<>> ELSE Head(ss) \o Flatten(Tail(ss))

\* The keys of dict d in iteration order.
KeysOf(d, ord) == SelectSeq(ord, LAMBDA k : k \in DOMAIN d)

(***************************************************************************)
(* The CSP object and its builder methods, as functions of the object      *)
(* g = [variables, domains, constraints].                                  *)
(***************************************************************************)
EmptyCSP == [variables |-> <<>>, domains |-> <<>>, constraints |-> <<>>]

add_variable(g, name, domain) ==
    [variables |-> Append(g.variables, name),
     domains |-> (name :> domain) @@ g.domains,
     constraints |-> (name :> <<>>) @@ g.constraints]

\* itertools.product(a, b): first component from a, second from b.
get_all_possible_pairs(a, b) ==
    [n \in 1..(Len(a) * Len(b)) |->
        <<a[((n - 1) \div Len(b)) + 1], b[((n - 1) % Len(b)) + 1]>>]

get_all_arcs(cons, ord) ==
    LET outer == KeysOf(cons, ord)
    IN Flatten([n \in 1..Len(outer) |->
            LET i == outer[n]
                inner == KeysOf(cons[i], ord)
            IN [m \in 1..Len(inner) |-> <<i, inner[m]>>]])

get_all_neighboring_arcs(cons, ord, var) ==
    LET inner == KeysOf(cons[var], ord)
    IN [m \in 1..Len(inner) |-> <<inner[m], var>>]

\* add_constraint_one_way without the test of line 66: the pair list is always
\* made anew from the domains.
add_constraint_one_way_replacing(g, i, j, filter_function) ==
    LET pairs == get_all_possible_pairs(g.domains[i], g.domains[j])
        legal == SelectSeq(pairs, LAMBDA vp : Holds(filter_function, vp[1], vp[2]))
    IN [g EXCEPT !.constraints[i] = (j :> legal) @@ @]

add_constraint_one_way(g, i, j, filter_function) ==
    LET pairs == IF j \in DOMAIN g.constraints[i]
                 THEN g.constraints[i][j]
                 ELSE get_all_possible_pairs(g.domains[i], g.domains[j])
        legal == SelectSeq(pairs, LAMBDA vp : Holds(filter_function, vp[1], vp[2]))
    IN [g EXCEPT !.constraints[i] = (j :> legal) @@ @]

RECURSIVE AllDifferentFrom(_, _, _)
AllDifferentFrom(g, pairs, n) ==
    IF n > Len(pairs) THEN g
    ELSE LET i == pairs[n][1]
             j == pairs[n][2]
         IN AllDifferentFrom(
                IF i # j THEN add_constraint_one_way(g, i, j, "neq") ELSE g,
                pairs, n + 1)

add_all_different_constraint(g, vs) ==
    AllDifferentFrom(g, get_all_possible_pairs(vs, vs), 1)

CSP == [variables |-> variables, domains |-> domains, constraints |-> constraints]


(***************************************************************************)
(* AC-3.  revise and inference take the branch's assignment but read and   *)
(* write self.domains.                                                     *)
(***************************************************************************)

\* Lines 209-211: enumerate(self.domains[i]) while deleting the entries equal to x.
RECURSIVE DeleteWhileEnumerating(_, _, _)
DeleteWhileEnumerating(d, x, key) ==
    IF key > Len(d) THEN d
    ELSE IF d[key] = x
         THEN DeleteWhileEnumerating(RemoveAt(d, key), x, key + 1)
         ELSE DeleteWhileEnumerating(d, x, key + 1)

\* Lines 201-212: the loop over self.domains[i], at list position p; the list
\* is the live one, so a deletion moves the following values one place down.
\* error: '(x, y) in None', the TypeError raised when i -> j is not registered.
RECURSIVE ReviseFrom(_, _, _, _, _, _)
ReviseFrom(doms, cons, i, j, p, revised) ==
    IF p > Len(doms[i])
    THEN [domains |-> doms, revised |-> revised, error |-> FALSE]
    ELSE IF Len(doms[j]) > 0 /\ j \notin DOMAIN cons[i]
    THEN [domains |-> doms, revised |-> revised, error |-> TRUE]
    ELSE LET x == doms[i][p]
             found == \E q \in 1..Len(doms[j]) : InList(<<x, doms[j][q]>>, cons[i][j])
         IN IF found
            THEN ReviseFrom(doms, cons, i, j, p + 1, revised)
            ELSE ReviseFrom([doms EXCEPT ![i] = DeleteWhileEnumerating(@, x, 1)],
                            cons, i, j, p + 1, TRUE)

revise(assignment, i, j) == ReviseFrom(domains, constraints, i, j, 1, FALSE)

\* Lines 184-186: the arcs appended to the queue after (i, j) revised i.
Requeued(i, j) ==
    SelectSeq(get_all_neighboring_arcs(constraints, keyOrder, i),
              LAMBDA k : k # <<i, j>>)

\* The assignment the running inference call was given.
CurrentAssignment ==
    IF stack = <<>> THEN arg ELSE stack[Len(stack)].new_assignment

\* One iteration of the while loop of inference (lines 179-186).
InferenceStep ==
    /\ pc = "inference"
    /\ queue # <<>>
    /\ LET i == Head(queue)[1]
           j == Head(queue)[2]
           r == revise(CurrentAssignment, i, j)
       IN \/ /\ r.error
             /\ domains' = r.domains
             /\ pc' = "raised"
             /\ queue' = Tail(queue)
             /\ UNCHANGED <<infResult, infHist>>
          \/ /\ ~r.error
             /\ r.revised
             /\ Len(r.domains[i]) = 0
             /\ domains' = r.domains
             /\ queue' = Tail(queue)
             /\ infResult' = FALSE
             /\ infHist' = [infHist EXCEPT !.ended = TRUE, !.prevResult = FALSE,
                                           !.prevQueue = infHist.curQueue,
                                           !.initial = IF stack = <<>> THEN "failed" ELSE @]
             /\ pc' = "inferred"
          \/ /\ ~r.error
             /\ r.revised
             /\ Len(r.domains[i]) # 0
             /\ domains' = r.domains
             /\ queue' = Tail(queue) \o Requeued(i, j)
             /\ UNCHANGED <<pc, infResult, infHist>>
          \/ /\ ~r.error
             /\ ~r.revised
             /\ queue' = Tail(queue)
             /\ UNCHANGED <<pc, domains, infResult, infHist>>
    /\ UNCHANGED <<variables, constraints, keyOrder, registered, hasBoard, ops, pairLog,
                   lastCall, backtrack_called, backtrack_failed, stack, arg, ret, result>>

\* Line 188: the queue is empty.
InferenceReturn ==
    /\ pc = "inference"
    /\ queue = <<>>
    /\ infResult' = TRUE
    /\ infHist' = [infHist EXCEPT !.ended = TRUE, !.prevResult = TRUE,
                                  !.prevQueue = infHist.curQueue,
                                  !.initial = IF stack = <<>> THEN "succeeded" ELSE @]
    /\ pc' = "inferred"
    /\ UNCHANGED <<graphVars, hasBoard, backtrack_called, backtrack_failed,
                   stack, arg, queue, ret, result>>

(***************************************************************************)
(* backtracking_search and backtrack.                                      *)
(***************************************************************************)
NoResult == [returned |-> FALSE, solved |-> FALSE, assignment |-> <<>>]
Solved(a) == [returned |-> TRUE, solved |-> TRUE, assignment |-> a]
Unsolved == [returned |-> TRUE, solved |-> FALSE, assignment |-> <<>>]

\* Lines 91-95: copy the domains, start inference on all arcs.
BacktrackingSearch ==
    /\ pc = "ready"
    /\ arg' = domains
    /\ queue' = get_all_arcs(constraints, keyOrder)
    /\ infHist' = [infHist EXCEPT !.curQueue = get_all_arcs(constraints, keyOrder)]
    /\ pc' = "inference"
    /\ UNCHANGED <<graphVars, hasBoard, backtrack_called, backtrack_failed,
                   stack, infResult, ret, result>>

\* Line 98: the result of the inference call is not looked at.
SearchCallsBacktrack ==
    /\ pc = "inferred"
    /\ stack = <<>>
    /\ pc' = "call"
    /\ UNCHANGED <<graphVars, searchVars>>

Finished(assignment) == \A a \in DOMAIN assignment : ~(Len(assignment[a]) > 1)
Unassigned(assignment) == {a \in DOMAIN assignment : Len(assignment[a]) > 1}

\* Lines 126-138: entry of backtrack(arg) up to the choice of var.
Backtrack ==
    /\ pc = "call"
    /\ backtrack_called' = backtrack_called + 1
    /\ \/ /\ Finished(arg)
          /\ ret' = Solved(arg)
          /\ pc' = "return"
          /\ UNCHANGED stack
       \/ /\ ~Finished(arg)
          /\ ~hasBoard                    \* debug_print: KeyError
          /\ pc' = "raised"
          /\ UNCHANGED <<stack, ret>>
       \/ /\ ~Finished(arg)
          /\ hasBoard
          /\ \E var \in Unassigned(arg) : \* random.choice(unassigned)
                stack' = Append(stack, [assignment |-> arg, var |-> var, idx |-> 0,
                                        value |-> 0, new_assignment |-> arg,
                                        tried |-> <<>>, seen |-> domains])
          /\ pc' = "loop"
          /\ UNCHANGED ret
    /\ UNCHANGED <<graphVars, hasBoard, backtrack_failed, arg, queue, infResult,
                   infHist, result>>

Top == stack[Len(stack)]
SetTop(f) == [stack EXCEPT ![Len(stack)] = f]
Pop == SubSeq(stack, 1, Len(stack) - 1)

\* Line 139 'for value in self.domains[var]' (the live list, position idx),
\* lines 140-143 of the iteration, and lines 155-156 when the list is exhausted.
LoopNext ==
    /\ pc = "loop"
    /\ \/ /\ Top.idx < Len(domains[Top.var])
          /\ LET value == domains[Top.var][Top.idx + 1]
                 new_assignment == [Top.assignment EXCEPT ![Top.var] = <<value>>]
             IN stack' = SetTop([Top EXCEPT !.value = value,
                                            !.new_assignment = new_assignment,
                                            !.tried = Append(@, value),
                                            !.seen = domains])
          /\ queue' = get_all_arcs(constraints, keyOrder)
          /\ infHist' = [infHist EXCEPT !.curQueue = get_all_arcs(constraints, keyOrder)]
          /\ pc' = "inference"
          /\ UNCHANGED <<backtrack_failed, ret>>
       \/ /\ ~(Top.idx < Len(domains[Top.var]))
          /\ backtrack_failed' = backtrack_failed + 1
          /\ stack' = Pop
          /\ ret' = Unsolved
          /\ pc' = "return"
          /\ UNCHANGED <<queue, infHist>>
    /\ UNCHANGED <<graphVars, hasBoard, backtrack_called, arg, infResult, result>>

\* Lines 149-152: delete the first entry of assignment[var] that is value.
RECURSIVE DeleteFirst(_, _, _)
DeleteFirst(s, value, idx) ==
    IF idx > Len(s) THEN s
    ELSE IF s[idx] = value THEN RemoveAt(s, idx)
    ELSE DeleteFirst(s, value, idx + 1)

\* The rest of an iteration whose value failed, and the step of the for loop.
NextValue(f) ==
    [f EXCEPT !.assignment[f.var] = DeleteFirst(@, f.value, 1), !.idx = @ + 1]

\* Lines 144-145 after inference returned in a branch.
BranchAfterInference ==
    /\ pc = "inferred"
    /\ stack # <<>>
    /\ \/ /\ infResult # FALSE
          /\ arg' = Top.new_assignment
          /\ pc' = "call"
          /\ UNCHANGED stack
       \/ /\ infResult = FALSE
          /\ stack' = SetTop(NextValue(Top))
          /\ pc' = "loop"
          /\ UNCHANGED arg
    /\ UNCHANGED <<graphVars, hasBoard, backtrack_called, backtrack_failed, queue,
                   infResult, infHist, ret, result>>

\* Return with the test of line 146 dropped: a solved result of the recursive
\* call is treated like False and the loop goes on to its next value.
ReturnIgnoringSuccess ==
    /\ pc = "return"
    /\ \/ /\ stack = <<>>
          /\ result' = ret
          /\ pc' = "done"
          /\ UNCHANGED stack
       \/ /\ stack # <<>>
          /\ stack' = SetTop(NextValue(Top))
          /\ pc' = "loop"
          /\ UNCHANGED result
    /\ UNCHANGED <<graphVars, hasBoard, backtrack_called, backtrack_failed, arg,
                   queue, infResult, infHist, ret>>

\* A backtrack call returned ret: to backtracking_search (line 98), or to the
\* iteration of the calling backtrack (lines 146-147, then 149-152).
Return ==
    /\ pc = "return"
    /\ \/ /\ stack = <<>>
          /\ result' = ret
          /\ pc' = "done"
          /\ UNCHANGED stack
       \/ /\ stack # <<>>
          /\ ret.solved
          /\ stack' = Pop
          /\ UNCHANGED <<pc, result>>
       \/ /\ stack # <<>>
          /\ ~ret.solved
          /\ stack' = SetTop(NextValue(Top))
          /\ pc' = "loop"
          /\ UNCHANGED result
    /\ UNCHANGED <<graphVars, hasBoard, backtrack_called, backtrack_failed, arg,
                   queue, infResult, infHist, ret>>


(***************************************************************************)
(* The graphs the search is started on: each is what the builder methods   *)
(* produce from the calls a ProblemBuilder makes.                          *)
(***************************************************************************)

\* A domain handed to add_variable: the values lo..hi in order (empty if lo > hi).
Interval(lo, hi) == [n \in 1..(hi - lo + 1) |-> lo + n - 1]
DomainChoices == {Interval(lo, hi) : lo \in Values, hi \in Values} \cup {<<>>}

RECURSIVE AddVariables(_, _, _)
AddVariables(g, doms, k) ==
    IF k > Len(doms) THEN g
    ELSE AddVariables(add_variable(g, Name(k), doms[k]), doms, k + 1)

\* How the builder constrains a pair of variables a, b (a registered first).
PairKinds == {"none", "different", "less", "greater", "oneway"}
ConstrainPair(g, a, b, kind) ==
    CASE kind = "none" -> g
      [] kind = "different" ->
            add_constraint_one_way(add_constraint_one_way(g, a, b, "neq"), b, a, "neq")
      [] kind = "less" ->
            add_constraint_one_way(add_constraint_one_way(g, a, b, "lt"), b, a, "gt")
      [] kind = "greater" ->
            add_constraint_one_way(add_constraint_one_way(g, a, b, "gt"), b, a, "lt")
      [] kind = "oneway" -> add_constraint_one_way(g, a, b, "neq")

RECURSIVE ConstrainPairs(_, _, _, _)
ConstrainPairs(g, pairs, kind, n) ==
    IF n > Len(pairs) THEN g
    ELSE ConstrainPairs(ConstrainPair(g, pairs[n][1], pairs[n][2], kind), pairs, kind, n + 1)

\* The pairs (a, b) of vs with a before b.
OrderedPairs(vs) ==
    SelectSeq(get_all_possible_pairs([k \in 1..Len(vs) |-> k], [k \in 1..Len(vs) |-> k]),
              LAMBDA p : p[1] < p[2])

GeneratedGraph(doms, kind) ==
    LET g == AddVariables(EmptyCSP, doms, 1)
        ps == OrderedPairs(g.variables)
        named == [n \in 1..Len(ps) |-> <<g.variables[ps[n][1]], g.variables[ps[n][2]]>>]
    IN IF kind = "alldiff"
       THEN add_all_different_constraint(g, g.variables)
       ELSE ConstrainPairs(g, named, kind, 1)

GraphKinds == PairKinds \cup {"alldiff"}

\* create_map_coloring_csp (lines 223-233); the colors are numbered in list order.
red == 1
green == 2
blue == 3
states == <<"WA", "NT", "Q", "NSW", "V", "SA", "T">>
edges == <<<<"SA", "WA">>, <<"SA", "NT">>, <<"SA", "Q">>, <<"SA", "NSW">>, <<"SA", "V">>,
           <<"NT", "WA">>, <<"NT", "Q">>, <<"NSW", "Q">>, <<"NSW", "V">>>>
colors == <<red, green, blue>>

RECURSIVE AddStates(_, _)
AddStates(g, k) ==
    IF k > Len(states) THEN g ELSE AddStates(add_variable(g, states[k], colors), k + 1)

create_map_coloring_csp == ConstrainPairs(AddStates(EmptyCSP, 1), edges, "different", 1)

Reverse(s) == [n \in 1..Len(s) |-> s[Len(s) + 1 - n]]

\* The state in which backtracking_search is called on graph g.  board: the
\* variables include every cell "r-c" that debug_print (line 137) looks up.  A
\* generated graph stands for a board whose other cells are fixed, unconstrained
\* single-value variables: they are on no arc and are never unassigned, so they
\* take no part in the search and are left out of the state.  The map-coloring
\* graph has no such variable, and debug_print raises KeyError on it.
NoCall == [op |-> "none", names |-> <<>>, f |-> "none", before |-> EmptyCSP]

SearchInit(g, board, ord) ==
    /\ variables = g.variables
    /\ domains = g.domains
    /\ constraints = g.constraints
    /\ registered = g.domains
    /\ keyOrder = ord
    /\ hasBoard = board
    /\ backtrack_called = 0
    /\ backtrack_failed = 0
    /\ pc = "ready"
    /\ stack = <<>>
    /\ arg = <<>>
    /\ queue = <<>>
    /\ infResult = TRUE
    /\ infHist = [initial |-> "none", ended |-> FALSE, prevResult |-> TRUE,
                  prevQueue |-> <<>>, curQueue |-> <<>>]
    /\ ret = NoResult
    /\ result = NoResult
    /\ ops = 0
    /\ pairLog = <<>>
    /\ lastCall = NoCall

Init ==
    \/ \E n \in 1..Len(Cells) : \E doms \in [1..n -> DomainChoices] : \E kind \in GraphKinds :
         LET g == GeneratedGraph(doms, kind)
         IN \E ord \in {g.variables, Reverse(g.variables)} : SearchInit(g, TRUE, ord)
    \/ \E ord \in {states, Reverse(states)} : SearchInit(create_map_coloring_csp, FALSE, ord)

Next ==
    \/ BacktrackingSearch
    \/ InferenceStep
    \/ InferenceReturn
    \/ SearchCallsBacktrack
    \/ Backtrack
    \/ LoopNext
    \/ BranchAfterInference
    \/ Return

Spec == Init /\ [][Next]_vars


(***************************************************************************)
(* Properties of the search.                                               *)
(***************************************************************************)
Arcs == Range(get_all_arcs(constraints, keyOrder))
Returned == pc = "done"
ReturnedSolved == pc = "done" /\ result.solved

\* The graph is one the builder contract allows: no variable was registered
\* with an empty domain and every constraint is registered in both directions.
WellFormed ==
    /\ \A v \in DOMAIN registered : registered[v] # <<>>
    /\ \A arc \in Arcs : <<arc[2], arc[1]>> \in Arcs

\* C1: every arc's pair of assigned values is in the arc's pair-set whenever
\* backtracking_search returns a solved assignment.
C1_Soundness ==
    (WellFormed /\ ReturnedSolved) =>
        \A arc \in Arcs :
            \A x \in Range(result.assignment[arc[1]]) :
                \A y \in Range(result.assignment[arc[2]]) :
                    InList(<<x, y>>, constraints[arc[1]][arc[2]])

\* The graph is n variables sharing one domain of fewer than n values, with
\* add_all_different_constraint applied to all of them.
IsPigeonhole ==
    /\ variables # <<>>
    /\ \A v \in DOMAIN registered : registered[v] = registered[variables[1]]
    /\ Len(registered[variables[1]]) < Len(variables)
    /\ constraints =
         add_all_different_constraint(
            [variables |-> variables, domains |-> registered,
             constraints |-> [v \in DOMAIN registered |-> <<>>]], variables).constraints

\* C2: on a pigeonhole graph backtracking_search returns False, never an assignment.
C2_Pigeonhole == (WellFormed /\ IsPigeonhole /\ Returned) => ~result.solved

\* C3: when the first inference call (the one made by backtracking_search) fails,
\* backtrack is never called and no assignment is returned.
C3_InitialFailureReturns ==
    (WellFormed /\ infHist.initial = "failed") => (backtrack_called = 0 /\ ~result.solved)

\* C4: the domains written by add_variable are never modified during the search.
C4_OriginalDomainsImmutable == WellFormed => domains = registered

\* C5: a returned solved assignment has exactly one value for every variable.
C5_EveryVariableDecided ==
    ReturnedSolved => \A v \in DOMAIN result.assignment : Len(result.assignment[v]) = 1

\* C6: an inference call that follows a completed (successful) inference call
\* with the same initial queue on the state that call left removes no value.
C6_Idempotent ==
    [][(/\ WellFormed
        /\ pc = "inference"
        /\ infHist.ended
        /\ infHist.prevResult = TRUE
        /\ infHist.prevQueue = infHist.curQueue) => domains' = domains]_vars

IsMapColoring == CSP = [create_map_coloring_csp EXCEPT !.domains = domains]
ProperColoring(a) ==
    /\ \A k \in 1..Len(states) : Len(a[states[k]]) = 1
    /\ \A k \in 1..Len(edges) : a[edges[k][1]][1] # a[edges[k][2]][1]

\* C7: on the map-coloring graph the call of backtracking_search ends by
\* returning an assignment with one color per region and different colors on
\* the two regions of every edge.
C7_MapColoring ==
    (IsMapColoring /\ pc \in {"done", "raised"}) =>
        (ReturnedSolved /\ ProperColoring(result.assignment))

\* C8: no step of an inference call adds a value to a domain: every domain
\* after the step is a sub-sequence of the domain before it.
C8_MonotonicShrink ==
    [][pc = "inference" =>
         \A v \in DOMAIN domains : IsSubSeq(domains'[v], domains[v])]_vars

\* A revision has removed a value during an inference call.
C8_Witness == pc = "inference" /\ \E v \in DOMAIN domains : Len(domains[v]) < Len(registered[v])


(***************************************************************************)
(* The builder: the calls a ProblemBuilder makes on a new CSP object.      *)
(***************************************************************************)
BuildNames == {Name(1), Name(2)}
BuildDomains == {<<>>, Interval(1, MaxVal), Interval(2, MaxVal)}

\* The stored arcs whose pair list the call add_variable(name, ...) throws away.
Kept(log, name) == [p \in {q \in DOMAIN log : q[1] # name} |-> log[p]]

\* The history of arc (i, j) after add_constraint_one_way(i, j, f) on object g.
Logged(log, g, i, j, f) ==
    IF j \in DOMAIN g.constraints[i]
    THEN [log EXCEPT ![<<i, j>>].filters = @ \cup {f}]
    ELSE (<<i, j>> :> [filters |-> {f}, a |-> g.domains[i], b |-> g.domains[j]]) @@ log

RECURSIVE LoggedAllDifferent(_, _, _, _)
LoggedAllDifferent(log, g, pairs, n) ==
    IF n > Len(pairs) THEN log
    ELSE LET i == pairs[n][1]
             j == pairs[n][2]
         IN IF i # j
            THEN LoggedAllDifferent(Logged(log, g, i, j, "neq"),
                                    add_constraint_one_way(g, i, j, "neq"), pairs, n + 1)
            ELSE LoggedAllDifferent(log, g, pairs, n + 1)

InitBuild ==
    /\ variables = EmptyCSP.variables
    /\ domains = EmptyCSP.domains
    /\ constraints = EmptyCSP.constraints
    /\ registered = <<>>
    /\ keyOrder = <<>>
    /\ hasBoard = FALSE
    /\ backtrack_called = 0
    /\ backtrack_failed = 0
    /\ pc = "build"
    /\ stack = <<>>
    /\ arg = <<>>
    /\ queue = <<>>
    /\ infResult = TRUE
    /\ infHist = [initial |-> "none", ended |-> FALSE, prevResult |-> TRUE,
                  prevQueue |-> <<>>, curQueue |-> <<>>]
    /\ ret = NoResult
    /\ result = NoResult
    /\ ops = 0
    /\ pairLog = <<>>
    /\ lastCall = NoCall

Becomes(g) ==
    /\ variables' = g.variables
    /\ domains' = g.domains
    /\ constraints' = g.constraints
    /\ ops' = ops + 1
    /\ UNCHANGED <<pc, searchVars>>

\* csp.add_variable(name, domain); the code accepts any name and any list.
AddVariable ==
    /\ pc = "build"
    /\ ops < MaxOps
    /\ \E name \in BuildNames : \E domain \in BuildDomains :
        /\ Becomes(add_variable(CSP, name, domain))
        /\ registered' = (name :> domain) @@ registered
        /\ keyOrder' = IF InList(name, keyOrder) THEN keyOrder ELSE Append(keyOrder, name)
        /\ pairLog' = Kept(pairLog, name)
        /\ lastCall' = [op |-> "add_variable", names |-> <<name>>, f |-> "none",
                        before |-> CSP]

\* csp.add_constraint_one_way(i, j, filter_function) on registered variables.
AddConstraintOneWay ==
    /\ pc = "build"
    /\ ops < MaxOps
    /\ \E i \in DOMAIN domains : \E j \in DOMAIN domains \ {i} : \E f \in Predicates :
        /\ Becomes(add_constraint_one_way(CSP, i, j, f))
        /\ pairLog' = Logged(pairLog, CSP, i, j, f)
        /\ lastCall' = [op |-> "add_constraint_one_way", names |-> <<i, j>>, f |-> f,
                        before |-> CSP]
    /\ UNCHANGED <<registered, keyOrder>>

\* csp.add_all_different_constraint(self.variables-like list of registered names).
AddAllDifferentConstraint ==
    /\ pc = "build"
    /\ ops < MaxOps
    /\ Cardinality(DOMAIN domains) > 1
    /\ \E vs \in {keyOrder, Reverse(keyOrder)} :
        /\ Becomes(add_all_different_constraint(CSP, vs))
        /\ pairLog' = LoggedAllDifferent(pairLog, CSP, get_all_possible_pairs(vs, vs), 1)
        /\ lastCall' = [op |-> "add_all_different_constraint", names |-> vs, f |-> "neq",
                        before |-> CSP]
    /\ UNCHANGED <<registered, keyOrder>>

NextBuild ==
    \/ AddVariable
    \/ AddConstraintOneWay
    \/ AddAllDifferentConstraint

SpecBuild == InitBuild /\ [][NextBuild]_vars

(***************************************************************************)
(* Properties of the builder.                                              *)
(***************************************************************************)

\* C9: get_all_neighboring_arcs(v) is exactly the registered arcs (k, v), also
\* when constraints are registered in one direction only.
C9_NeighborArcs ==
    \A v \in DOMAIN constraints :
        Range(get_all_neighboring_arcs(constraints, keyOrder, v))
            = {arc \in Arcs : arc[2] = v}

\* The last call was add_constraint_one_way(i, j, p2) on an arc already stored.
SecondCall ==
    /\ lastCall.op = "add_constraint_one_way"
    /\ lastCall.names[2] \in DOMAIN lastCall.before.constraints[lastCall.names[1]]

\* The pairs of a x b that satisfy every predicate of fs.
PairsSatisfying(a, b, fs) ==
    {vp \in Range(get_all_possible_pairs(a, b)) : \A f \in fs : Holds(f, vp[1], vp[2])}

\* C10 as stated (the domains of i and j being those of the first call): after a second add_constraint_one_way(i, j, p2) the stored
\* pair-set is exactly the pairs of domain(i) x domain(j) that satisfy p2.
C10_SecondCallReplaces ==
    SecondCall =>
        LET i == lastCall.names[1]
            j == lastCall.names[2]
        IN (domains[i] = pairLog[<<i, j>>].a /\ domains[j] = pairLog[<<i, j>>].b) =>
              Range(constraints[i][j])
                 = PairsSatisfying(domains[i], domains[j], {lastCall.f})

\* C10 amended: after a second add_constraint_one_way(i, j, p2) the stored
\* pair-set is exactly the pairs of domain(i) x domain(j), the domains being
\* those of the first call, that satisfy p2 and every predicate of the earlier
\* calls for (i, j).
C10_SecondCallFilters ==
    SecondCall =>
        LET i == lastCall.names[1]
            j == lastCall.names[2]
            log == pairLog[<<i, j>>]
        IN /\ lastCall.f \in log.filters
           /\ Range(constraints[i][j]) = PairsSatisfying(log.a, log.b, log.filters)

\* A second call whose predicate differs from the first one's and keeps a pair
\* the first one removed.
C10_Witness ==
    /\ SecondCall
    /\ LET i == lastCall.names[1]
           j == lastCall.names[2]
       IN /\ Cardinality(pairLog[<<i, j>>].filters) > 1
          /\ domains[i] = pairLog[<<i, j>>].a
          /\ domains[j] = pairLog[<<i, j>>].b
          /\ Range(constraints[i][j]) # PairsSatisfying(domains[i], domains[j], {lastCall.f})


\* The last call was add_variable(name, ...) with a name already registered.
DuplicateCall ==
    /\ lastCall.op = "add_variable"
    /\ lastCall.names[1] \in DOMAIN lastCall.before.domains

\* C11: add_variable with a registered name raises and leaves the variable
\* list, the variable's domain and its outgoing constraints as they were.
C11_DuplicateRejected == DuplicateCall => (pc = "raised" /\ CSP = lastCall.before)

\* C12: add_variable with an empty domain registers nothing: no variable of
\* the graph has an empty original domain.
C12_NoEmptyDomain == \A v \in DOMAIN domains : domains[v] # <<>>


\* C13: backtrack_called goes up by one at every call of backtrack and at no
\* other step; backtrack_failed goes up, by one, only when a call returns
\* False after its loop has tried every candidate value of its variable (the
\* values registered with add_variable, in that order) and none led to a
\* solved assignment; a step that returns a solved assignment leaves
\* backtrack_failed alone; backtrack_failed never exceeds backtrack_called.
C13_Diagnostics ==
    /\ [](backtrack_failed <= backtrack_called)
    /\ [][/\ pc = "call" => backtrack_called' = backtrack_called + 1
          /\ pc # "call" => backtrack_called' = backtrack_called
          /\ backtrack_failed' # backtrack_failed =>
                /\ pc = "loop"
                /\ ~(Top.idx < Len(domains[Top.var]))
                /\ backtrack_failed' = backtrack_failed + 1
                /\ ret' = Unsolved
                /\ WellFormed => Top.tried = registered[Top.var]
          /\ ret'.solved => backtrack_failed' = backtrack_failed]_vars

\* C14: when inference has returned True for the copy new_assignment in which
\* var was set to [value], every value left in the copy's list of a variable
\* k with a registered arc (k, var) is paired with value in the pair-set of
\* k -> var.
C14_CopyPrunedAgainstValue ==
    (WellFormed /\ pc = "inferred" /\ stack # <<>> /\ infResult = TRUE) =>
        \A arc \in Arcs :
            arc[2] = Top.var =>
                \A x \in Range(Top.new_assignment[arc[1]]) :
                    InList(<<x, Top.value>>, constraints[arc[1]][Top.var])

\* C15: when revise(assignment, i, j) returns, every value left in the domain
\* of i has a value of the domain of j paired with it in the pair-set of
\* i -> j, and it returns True exactly when it removed a value.
C15_RevisePostcondition ==
    [][(WellFormed /\ pc = "inference" /\ queue # <<>>) =>
          LET i == Head(queue)[1]
              j == Head(queue)[2]
              r == revise(CurrentAssignment, i, j)
          IN ~r.error =>
                /\ \A x \in Range(domains'[i]) :
                      \E y \in Range(domains'[j]) : InList(<<x, y>>, constraints[i][j])
                /\ r.revised <=> domains'[i] # domains[i]]_vars

\* C16: in every state in which inference has returned True, no variable's
\* domain is empty.
C16_SuccessMeansNoEmptyDomain ==
    (WellFormed /\ pc = "inferred" /\ infResult = TRUE) =>
        \A v \in DOMAIN domains : domains[v] # <<>>

\* C17: when the loop of a backtrack call starts the iteration for its next
\* value, the domains inference will read, for every variable other than var,
\* are those the previous iteration of that loop started from.
C17_BranchIsolation ==
    (WellFormed /\ pc = "loop" /\ Top.tried # <<>> /\ Top.idx < Len(domains[Top.var])) =>
        \A v \in DOMAIN domains \ {Top.var} : domains[v] = Top.seen[v]

\* C18: the values a backtrack call has tried for its variable are, in order,
\* the first values of the domain registered for it with add_variable, and
\* when its loop ends without a solved assignment they are all of them.
C18_OriginalDomainOrder ==
    WellFormed =>
        \A k \in 1..Len(stack) :
            LET f == stack[k]
            IN /\ Len(f.tried) <= Len(registered[f.var])
               /\ f.tried = SubSeq(registered[f.var], 1, Len(f.tried))
               /\ (k = Len(stack) /\ pc = "loop" /\ ~(f.idx < Len(domains[f.var])))
                     => f.tried = registered[f.var]

\* C19: once a backtrack call has returned a solved assignment, every step
\* hands that same assignment to the enclosing call, which returns it at once,
\* until backtracking_search returns it: no value is tried, inference and
\* backtrack are not called (backtrack_called stays), backtrack_failed stays
\* and self.domains is not touched.
C19_FirstSuccessWins ==
    [][(pc = "return" /\ ret.solved) =>
          /\ ret' = ret
          /\ backtrack_called' = backtrack_called
          /\ backtrack_failed' = backtrack_failed
          /\ domains' = domains
          /\ queue' = queue
          /\ stack # <<>> => (stack' = Pop /\ pc' = "return")
          /\ stack = <<>> => (pc' = "done" /\ result' = ret)]_vars

\* A solved assignment is on its way up through two enclosing backtrack calls.
C19_Witness == pc = "return" /\ ret.solved /\ Len(stack) >= 2

\* Every registered arc has its reverse registered.
BothDirections == \A arc \in Arcs : <<arc[2], arc[1]>> \in Arcs

\* The number of variables backtrack would find undecided in assignment.
Undecided(assignment) == Cardinality(Unassigned(assignment))

\* C20: on a graph whose constraints are registered in both directions the
\* search does not stop before backtracking_search has returned, each nested
\* backtrack call has fewer undecided variables than its caller, and the
\* nesting is never deeper than the number of variables undecided at the
\* first call.
C20_Termination ==
    BothDirections =>
        /\ pc = "done" \/ ENABLED Next
        /\ Len(stack) <= Undecided(registered)
        /\ \A k \in 1..(Len(stack) - 1) :
              Undecided(stack[k + 1].assignment) < Undecided(stack[k].assignment)

====
